---- MODULE Spec2Model ----
(***************************************************************************)
(* A model of avalon/fusion/pipeline.py: the container metadata protocol   *)
(* (imprint_container / parse_container / ls), the host log router         *)
(* (install / CompLogHandler.emit / get_current_comp) and the scoped edit  *)
(* session (comp_lock_and_undo_chunk).  The Fusion host objects (comp,     *)
(* tool, the __main__.fusion attribute), the logging module's root logger  *)
(* and Python's import system are modelled by the part of their behaviour  *)
(* the module calls.                                                       *)
(***************************************************************************)
EXTENDS Integers, Sequences, FiniteSets, TLC

(***************************************************************************)
(* Bounds of the model.                                                    *)
(***************************************************************************)
MaxTools == 2
MaxComps == 2
MaxChanges == 1

Tools == 1 .. MaxTools
Comps == 1 .. MaxComps

VARIABLES
    mainHasFusion,  \* whether sys.modules["__main__"] has an attribute "fusion"
    CurrentComp,    \* fusion.CurrentComp: a comp, or NoComp for None
    compTools,      \* comp -> its tool list, what comp.GetToolList(False) holds
    toolID,         \* tool -> tool.ID, "" while the tool was never created
    deleted,        \* the tools deleted from their comp (dead handles)
    toolData,       \* tool -> its metadata table (key -> value)
    gen,            \* the generator object returned by the last ls() call
    ret,            \* the outcome of the last call: value returned or error raised
    lastImprint,    \* history: tool -> arguments of its last successful imprint,
                    \* and whether it replaced another name and loader
    atCall,         \* history: the Loaders of the current comp when ls() was called
    atStart,        \* history: the Loaders of the comp the generator body read
    yielded,        \* history: the containers the generator yielded, in order
    changes,        \* history: the changes of the comp since ls() was called
    changedLate,    \* history: the comp changed since the generator body started
    rootHandlers,   \* logging.root.handlers: the handlers, by class, in order
    rootLevel,      \* logging.root.level, by name
    registeredHosts, \* the hosts registered with pyblish
    console,        \* comp -> the texts comp.Print() wrote to its console
    logged,         \* history: the records logged on the root logger: the entry a
                    \* handler makes of it, how many times CompLogHandler.emit
                    \* was called for it and the comp that was current then
    lastInstall,    \* history: the config of the last install(), the handlers it
                    \* found and the argument lists of its calls of the
                    \* extension's install()
    pc,             \* where the running comp_lock_and_undo_chunk stands
    scopeComp,      \* the comp it was entered with
    scopeLabel,     \* the undo_queue_name it was entered with
    lockDepth,      \* comp -> how many times the comp is locked
    undoOpen,       \* comp -> the labels of its open undo chunks
    calls,          \* history: the host calls of the current scope and the body
    pending,        \* the error on its way out of the generator, "" for none
    scopes          \* history: how many scopes were entered

containerVars == <<mainHasFusion, CurrentComp, compTools, toolID, deleted, toolData,
                   gen, ret, lastImprint, atCall, atStart, yielded, changes,
                   changedLate>>

logVars == <<rootHandlers, rootLevel, registeredHosts, console, logged, lastInstall>>

scopeVars == <<pc, scopeComp, scopeLabel, lockDepth, undoOpen, calls, pending, scopes>>

fusionVars == <<mainHasFusion, CurrentComp>>
toolVars == <<compTools, toolID, deleted, toolData, lastImprint>>
genVars == <<gen, atCall, atStart, yielded, changes, changedLate>>

vars == <<containerVars, logVars, scopeVars>>

(***************************************************************************)
(* Python values.  Every value is a record of the same shape so that any   *)
(* two of them can be compared: t is the Python type, s the text of a str, *)
(* n the number of an int or the identity of a host tool handle.           *)
(***************************************************************************)
PyNone == [t |-> "NoneType", s |-> "", n |-> 0]
PyStr(text) == [t |-> "str", s |-> text, n |-> 0]
PyInt(i) == [t |-> "int", s |-> "", n |-> i]
PyTool(tool) == [t |-> "Tool", s |-> "", n |-> tool]

Digits == <<"0", "1", "2", "3", "4", "5", "6", "7", "8", "9">>

RECURSIVE NatToText(_)
NatToText(i) ==
    IF i < 10 THEN Digits[i + 1]
    ELSE NatToText(i \div 10) \o Digits[(i % 10) + 1]

\* Python's str(): the text of a str is itself, an int is written in
\* decimal, None is written "None".
str(v) ==
    CASE v.t = "str" -> v.s
      [] v.t = "int" -> IF v.n < 0 THEN "-" \o NatToText(0 - v.n) ELSE NatToText(v.n)
      [] v.t = "NoneType" -> "None"
      [] OTHER -> "<" \o v.t \o ">"


(***************************************************************************)
(* The host: comps, tools and the tool metadata table.                     *)
(***************************************************************************)
NoComp == 0
ToolKinds == {"Loader", "Saver"}

\* dict-like update d[key] = value on a function with a finite domain
Put(d, key, value) ==
    [k \in (DOMAIN d) \cup {key} |-> IF k = key THEN value ELSE d[k]]

EmptyTable == [k \in {} |-> PyNone]

\* tool.SetData(key, value) on the table of one tool
SetData(table, key, value) == Put(table, key, value)

\* tool.GetData(key): the stored value, None for a key never set
GetData(table, key) == IF key \in DOMAIN table THEN table[key] ELSE PyNone

\* tool.Name: the display name the host gave the tool
ToolName(tool) == toolID[tool] \o NatToText(tool)

\* 'avalon.{}'.format(key)
DataKey(key) == "avalon." \o key

ContainerKeys == <<"schema", "id", "name", "namespace", "loader", "representation">>

(***************************************************************************)
(* get_current_comp                                                        *)
(***************************************************************************)
get_current_comp == IF mainHasFusion THEN CurrentComp ELSE NoComp

(***************************************************************************)
(* parse_container: reads the six keys, then adds objectName and _tool.    *)
(***************************************************************************)
\* A faulty variant: a key whose value is None is left out of the record.
parse_container_skip(table, tool) ==
    [k \in {ContainerKeys[i] : i \in {j \in 1 .. Len(ContainerKeys) :
                                        GetData(table, DataKey(ContainerKeys[j])) # PyNone}}
            \cup {"objectName", "_tool"} |->
        IF k = "objectName" THEN PyStr(ToolName(tool))
        ELSE IF k = "_tool" THEN PyTool(tool)
        ELSE GetData(table, DataKey(k))]

parse_container_of(table, tool) ==
    [k \in {ContainerKeys[i] : i \in 1 .. Len(ContainerKeys)} \cup {"objectName", "_tool"} |->
        IF k = "objectName" THEN PyStr(ToolName(tool))
        ELSE IF k = "_tool" THEN PyTool(tool)
        ELSE GetData(table, DataKey(k))]

parse_container(tool) == parse_container_of(toolData[tool], tool)

(***************************************************************************)
(* imprint_container.  A context is a Python dict, here a function from    *)
(* its keys; a context without the path representation._id makes the       *)
(* subscription on line 99 raise KeyError while the list `data` is built,  *)
(* before the loop on lines 102-103 writes anything.                       *)
(***************************************************************************)
SchemaValue == "avalon-core:container-2.0"
IdValue == "pyblish.avalon.container"

Dict1(key, value) == [k \in {key} |-> value]

HasRepresentationId(context) ==
    /\ "representation" \in DOMAIN context
    /\ "_id" \in DOMAIN context["representation"]

\* the list `data` of lines 93-100
ImprintData(name, namespace, context, loader) ==
    << <<"schema", PyStr(SchemaValue)>>,
       <<"id", PyStr(IdValue)>>,
       <<"name", PyStr(str(name))>>,
       <<"namespace", PyStr(str(namespace))>>,
       <<"loader", PyStr(str(loader))>>,
       <<"representation", PyStr(str(context["representation"]["_id"]))>> >>

\* the loop of lines 102-103 over the first `count` entries of data
RECURSIVE WriteData(_, _, _)
WriteData(table, data, count) ==
    IF count = 0 THEN table
    ELSE SetData(WriteData(table, data, count - 1),
                 DataKey(data[count][1]), data[count][2])

\* A faulty variant: writes each key as soon as its value is computed, so a
\* malformed context leaves the first five keys written.
imprint_container_eager(table, name, namespace, context, loader) ==
    IF HasRepresentationId(context)
    THEN [exc |-> "",
          table |-> WriteData(table, ImprintData(name, namespace, context, loader), 6)]
    ELSE [exc |-> "KeyError",
          table |-> WriteData(table,
                        << <<"schema", PyStr(SchemaValue)>>,
                           <<"id", PyStr(IdValue)>>,
                           <<"name", PyStr(str(name))>>,
                           <<"namespace", PyStr(str(namespace))>>,
                           <<"loader", PyStr(str(loader))>> >>, 5)]

\* A faulty variant: keeps the value of a key the tool already carries.
imprint_container_keep(table, name, namespace, context, loader) ==
    IF HasRepresentationId(context)
    THEN LET new == WriteData(EmptyTable, ImprintData(name, namespace, context, loader), 6)
         IN  [exc |-> "",
              table |-> [k \in (DOMAIN table) \cup (DOMAIN new) |->
                            IF k \in DOMAIN table THEN table[k] ELSE new[k]]]
    ELSE [exc |-> "KeyError", table |-> table]

\* imprint_container on a tool whose metadata table is `table`: the error
\* raised ("" for none) and the table afterwards.
imprint_container(table, name, namespace, context, loader) ==
    IF HasRepresentationId(context)
    THEN LET data == ImprintData(name, namespace, context, loader)
         IN  [exc |-> "", table |-> WriteData(table, data, Len(data))]
    ELSE [exc |-> "KeyError", table |-> table]

(***************************************************************************)
(* The arguments the calls are made with.                                  *)
(***************************************************************************)
Args(name, namespace, context, loader) ==
    [name |-> name, namespace |-> namespace, context |-> context, loader |-> loader]

ContextOf(id) == Dict1("representation", Dict1("_id", id))

\* calls with a well-formed context: all text, no text at all (a number for
\* a name, the default loader None), and a mix of the two
GoodCalls ==
    {Args(PyStr("chair_01"), PyStr("charA"), ContextOf(PyStr("60f")), PyStr("ModelLoader")),
     Args(PyInt(7), PyNone, ContextOf(PyInt(60)), PyNone),
     Args(PyStr("7"), PyStr("charA"), ContextOf(PyInt(-3)), PyNone)}

\* calls with a malformed context: no "representation", or one without "_id"
BadCalls ==
    {Args(PyStr("table_02"), PyStr("charB"), Dict1("asset", Dict1("_id", PyStr("60f"))),
          PyStr("ModelLoader")),
     Args(PyInt(7), PyNone, Dict1("representation", Dict1("name", PyStr("exr"))), PyNone)}

ImprintCalls == GoodCalls \cup BadCalls

NoImprint == [done |-> FALSE, replaced |-> FALSE, name |-> PyNone, namespace |-> PyNone,
              loader |-> PyNone, id |-> PyNone]

Result(op, tool, exc, val) == [op |-> op, tool |-> tool, exc |-> exc, val |-> val]

LiveTools == {t \in Tools : toolID[t] # "" /\ t \notin deleted}

Init ==
    /\ mainHasFusion = TRUE
    /\ CurrentComp = 1
    /\ compTools = [c \in Comps |-> <<>>]
    /\ toolID = [t \in Tools |-> ""]
    /\ deleted = {}
    /\ toolData = [t \in Tools |-> EmptyTable]
    /\ gen = [state |-> "none", tools |-> <<>>]
    /\ ret = Result("", 0, "", PyNone)
    /\ lastImprint = [t \in Tools |-> NoImprint]
    /\ atCall = <<>>
    /\ atStart = <<>>
    /\ yielded = <<>>
    /\ changes = 0
    /\ changedLate = FALSE
    /\ rootHandlers = <<>>
    /\ rootLevel = "WARNING"
    /\ registeredHosts = {}
    /\ console = [c \in Comps |-> <<>>]
    /\ logged = <<>>
    /\ lastInstall = [config |-> "", before |-> <<>>, calls |-> <<>>]
    /\ pc = "idle"
    /\ scopeComp = NoComp
    /\ scopeLabel = ""
    /\ lockDepth = [c \in Comps |-> 0]
    /\ undoOpen = [c \in Comps |-> <<>>]
    /\ calls = <<>>
    /\ pending = ""
    /\ scopes = 0

(***************************************************************************)
(* What the host and its user do to the comp.                              *)
(***************************************************************************)
\* a change of the comp; the changes made while a generator of ls() is being
\* consumed are counted, and the model follows the comp no further once the
\* generator has ended, until the caller drops it
NoteChange ==
    /\ \/ gen.state = "none"
       \/ gen.state \in {"created", "suspended"} /\ changes < MaxChanges
    /\ changes' = IF gen.state = "none" THEN 0 ELSE changes + 1
    /\ changedLate' = (gen.state \notin {"none", "created"})

\* the user adds a tool of some kind to a comp (comp.AddTool)
AddTool(comp, kind) ==
    /\ \E t \in Tools :
        /\ toolID[t] = ""
        /\ \A u \in Tools : u < t => toolID[u] # ""
        /\ toolID' = [toolID EXCEPT ![t] = kind]
        /\ compTools' = [compTools EXCEPT ![comp] = Append(@, t)]
    /\ NoteChange
    /\ UNCHANGED <<mainHasFusion, CurrentComp, deleted, toolData, gen, ret,
                   lastImprint, atCall, atStart, yielded>>

\* the user deletes a tool: its metadata goes with it, and the handles to
\* it that a script still holds are dead
DeleteTool(comp, tool) ==
    /\ \E i \in 1 .. Len(compTools[comp]) : compTools[comp][i] = tool
    /\ compTools' = [compTools EXCEPT ![comp] = SelectSeq(@, LAMBDA u : u # tool)]
    /\ deleted' = deleted \cup {tool}
    /\ toolData' = [toolData EXCEPT ![tool] = EmptyTable]
    /\ lastImprint' = [lastImprint EXCEPT ![tool] = NoImprint]
    /\ NoteChange
    /\ UNCHANGED <<mainHasFusion, CurrentComp, toolID, gen, ret, atCall, atStart,
                   yielded>>

\* the user opens, closes or switches to a comp, or the script runs outside
\* the host (no fusion attribute on __main__)
SetCurrentComp(present, comp) ==
    /\ present \/ comp = NoComp
    /\ <<present, comp>> # <<mainHasFusion, CurrentComp>>
    /\ mainHasFusion' = present
    /\ CurrentComp' = comp
    /\ NoteChange
    /\ UNCHANGED <<compTools, toolID, deleted, toolData, gen, ret, lastImprint,
                   atCall, atStart, yielded>>

(***************************************************************************)
(* Calls of imprint_container and parse_container.                         *)
(***************************************************************************)
Imprint(tool, name, namespace, context, loader) ==
    /\ tool \in LiveTools
    /\ LET r == imprint_container(toolData[tool], name, namespace, context, loader)
       IN  /\ toolData' = [toolData EXCEPT ![tool] = r.table]
           /\ ret' = Result("imprint_container", tool, r.exc, PyNone)
           /\ lastImprint' =
                IF r.exc = ""
                THEN [lastImprint EXCEPT ![tool] =
                        [done |-> TRUE,
                         replaced |-> lastImprint[tool].done
                                        /\ lastImprint[tool].name # name
                                        /\ lastImprint[tool].loader # loader,
                         name |-> name, namespace |-> namespace,
                         loader |-> loader, id |-> context["representation"]["_id"]]]
                ELSE lastImprint
    /\ NoteChange
    /\ UNCHANGED <<mainHasFusion, CurrentComp, compTools, toolID, deleted, gen,
                   atCall, atStart, yielded>>

Parse(tool) ==
    /\ tool \in LiveTools
    /\ ret' = Result("parse_container", tool, "", parse_container(tool))
    /\ UNCHANGED <<mainHasFusion, CurrentComp, compTools, toolID, deleted, toolData,
                   gen, lastImprint, atCall, atStart, yielded, changes, changedLate>>

(***************************************************************************)
(* ls: a generator function.  Calling it only creates the generator        *)
(* object; the body (lines 25-31) runs when the generator is advanced, up  *)
(* to the next yield.                                                      *)
(***************************************************************************)
LoaderTools(list) == SelectSeq(list, LAMBDA t : toolID[t] = "Loader")

\* A faulty variant: the Loaders the comp had when ls() was called.
GetToolListAtCall(comp) == atCall

\* comp.GetToolList(False).values(): the tools of the comp, in list order
GetToolList(comp) == compTools[comp]

\* A faulty variant of the test on line 28: only imprinted Loaders pass.
IsLoaderImprinted(id, table) ==
    id \in {"Loader"} /\ GetData(table, DataKey("schema")) = PyStr(SchemaValue)

\* line 28: tool.ID in ["Loader"]
IsLoader(id, table) == id \in {"Loader"}

\* The ways the loop of lines 27-31 can go on from the tools left to visit:
\* yield the container of the next Loader, run off the end of the list, or
\* fail in the host.  What a dead handle (a deleted tool) does is up to the
\* host: reading it fails, or its ID reads as None and it is passed over, or
\* it still answers, with its ID and without metadata.
RECURSIVE LoopOutcomes(_)
LoopOutcomes(list) ==
    IF list = <<>> THEN {[kind |-> "stop", tool |-> 0, rest |-> <<>>]}
    ELSE LET tool == Head(list)
             rest == Tail(list)
             here == IF IsLoader(toolID[tool], toolData[tool])
                     THEN {[kind |-> "yield", tool |-> tool, rest |-> rest]}
                     ELSE LoopOutcomes(rest)
         IN  IF tool \in deleted
             THEN {[kind |-> "raise", tool |-> tool, rest |-> <<>>]}
                    \cup LoopOutcomes(rest) \cup here
             ELSE here

\* ls(): returns a new generator; nothing of the body has run yet
LsCall ==
    /\ gen' = [state |-> "created", tools |-> <<>>]
    /\ ret' = Result("ls", 0, "", PyNone)
    /\ atCall' = IF get_current_comp = NoComp THEN <<>>
                 ELSE LoaderTools(compTools[get_current_comp])
    /\ atStart' = <<>>
    /\ yielded' = <<>>
    /\ changes' = 0
    /\ changedLate' = FALSE
    /\ UNCHANGED <<mainHasFusion, CurrentComp, compTools, toolID, deleted, toolData,
                   lastImprint>>

\* the caller drops the generator
GenDrop ==
    /\ gen.state \in {"exhausted", "failed"}
    /\ gen' = [state |-> "none", tools |-> <<>>]
    /\ atCall' = <<>>
    /\ atStart' = <<>>
    /\ yielded' = <<>>
    /\ changes' = 0
    /\ changedLate' = FALSE
    /\ UNCHANGED <<mainHasFusion, CurrentComp, compTools, toolID, deleted, toolData,
                   lastImprint, ret>>

\* the loop of lines 27-31 goes on over `list`
LoopStep(list) ==
    \E o \in LoopOutcomes(list) :
        \/ /\ o.kind = "yield"
           /\ gen' = [state |-> "suspended", tools |-> o.rest]
           /\ ret' = Result("next", o.tool, "", parse_container(o.tool))
           /\ yielded' = Append(yielded, parse_container(o.tool))
        \/ /\ o.kind = "stop"
           /\ gen' = [state |-> "exhausted", tools |-> <<>>]
           /\ ret' = Result("next", 0, "StopIteration", PyNone)
           /\ yielded' = yielded
        \/ /\ o.kind = "raise"
           /\ gen' = [state |-> "failed", tools |-> <<>>]
           /\ ret' = Result("next", o.tool, "HostError", PyNone)
           /\ yielded' = yielded

\* next() on the generator ls() returned
GenNext ==
    /\ gen.state # "none"
    /\ \/ /\ gen.state = "created"
          /\ get_current_comp = NoComp
          /\ gen' = [state |-> "failed", tools |-> <<>>]
          /\ ret' = Result("next", 0, "AttributeError", PyNone)
          /\ UNCHANGED <<atStart, yielded, changedLate>>
       \/ /\ gen.state = "created"
          /\ get_current_comp # NoComp
          /\ atStart' = LoaderTools(compTools[get_current_comp])
          /\ changedLate' = FALSE
          /\ LoopStep(GetToolList(get_current_comp))
       \/ /\ gen.state = "suspended"
          /\ LoopStep(gen.tools)
          /\ UNCHANGED <<atStart, changedLate>>
       \/ /\ gen.state \in {"exhausted", "failed"}
          /\ ret' = Result("next", 0, "StopIteration", PyNone)
          /\ UNCHANGED <<gen, atStart, yielded, changedLate>>
    /\ UNCHANGED <<mainHasFusion, CurrentComp, compTools, toolID, deleted, toolData,
                   lastImprint, atCall, changes>>

(***************************************************************************)
(* The logging module, as far as install and CompLogHandler use it.  A     *)
(* handler is modelled by its class: handlers of one class behave alike.   *)
(***************************************************************************)
HandlerClasses == {"StreamHandler", "FileHandler"}
LevelNames == {"TRACE", "DEBUG", "WARNING"}

\* the numeric value of a level; "TRACE" is a custom level below DEBUG
LevelNo(level) ==
    CASE level = "TRACE" -> 5
      [] level = "DEBUG" -> 10
      [] level = "INFO" -> 20
      [] level = "WARNING" -> 30

\* list.remove(h) guarded by `if hdlr in self.handlers`: drops the first
\* occurrence of h
RECURSIVE removeHandler(_, _)
removeHandler(handlers, h) ==
    IF handlers = <<>> THEN <<>>
    ELSE IF Head(handlers) = h THEN Tail(handlers)
    ELSE <<Head(handlers)>> \o removeHandler(Tail(handlers), h)

\* Logger.addHandler: appends unless the handler is in the list already;
\* the handler added by install is a new object, never in the list
addHandler(handlers, h) == Append(handlers, h)

\* lines 49-50: removeHandler for each handler of a copy of the list
RECURSIVE RemoveEach(_, _, _)
RemoveEach(handlers, copy, count) ==
    IF count = 0 THEN handlers
    ELSE removeHandler(RemoveEach(handlers, copy, count - 1), copy[count])

\* A faulty variant: the loop runs over the list itself, not over a copy, so
\* each removal makes it skip the handler that moves into the freed place.
RECURSIVE RemoveInPlace(_, _)
RemoveInPlace(handlers, index) ==
    IF index > Len(handlers) THEN handlers
    ELSE RemoveInPlace(removeHandler(handlers, handlers[index]), index + 1)

RemoveLive(handlers) == RemoveInPlace(handlers, 1)

RemoveAllHandlers(handlers) == RemoveEach(handlers, handlers, Len(handlers))

\* logging.Formatter(fmt="%(message)s\n").format(record)
Format(message) == message \o "\n"

\* A faulty variant: a record that finds no comp is written to the first comp.
emit_fallback(cons, entry, comp) ==
    IF comp # NoComp THEN [cons EXCEPT ![comp] = Append(@, entry)]
    ELSE [cons EXCEPT ![1] = Append(@, entry)]

\* CompLogHandler.emit, given the entry format() made and the comp
\* get_current_comp() returned: the consoles afterwards
emit(cons, entry, comp) ==
    IF comp # NoComp THEN [cons EXCEPT ![comp] = Append(@, entry)] ELSE cons

\* Logger.callHandlers: every handler of the root logger handles the record;
\* what the handlers of other classes write is not part of the model
RECURSIVE callHandlers(_, _, _, _)
callHandlers(handlers, cons, message, comp) ==
    IF handlers = <<>> THEN cons
    ELSE callHandlers(Tail(handlers),
                      IF Head(handlers) = "CompLogHandler"
                      THEN emit(cons, Format(message), comp)
                      ELSE cons,
                      message, comp)

CountIn(seq, x) == Cardinality({i \in 1 .. Len(seq) : seq[i] = x})

(***************************************************************************)
(* The modules Python can import, and the optional extension of install.   *)
(***************************************************************************)
Configs == {"polly", "colorbleed", "mindbender", "legacy", "legacy_rt",
            "polly_raises", "polly_none"}

\* what importing a module finds: a module with an install function, a
\* module without an install attribute, no module, a module whose own import
\* fails with ImportError or with another error, a module whose install()
\* raises, or a module whose install attribute is None
ModuleState(modname) ==
    CASE modname = "polly.fusion" -> "has_install"
      [] modname = "colorbleed.fusion" -> "no_install"
      [] modname = "legacy.fusion" -> "import_error"
      [] modname = "legacy_rt.fusion" -> "import_raises"
      [] modname = "polly_raises.fusion" -> "install_raises"
      [] modname = "polly_none.fusion" -> "install_none"
      [] OTHER -> "absent"

\* importlib.import_module: the error raised, "" for none
import_module(modname) ==
    CASE ModuleState(modname) \in {"absent", "import_error"} -> "ImportError"
      [] ModuleState(modname) = "import_raises" -> "RuntimeError"
      [] OTHER -> ""

hasattr_install(modname) ==
    ModuleState(modname) \in {"has_install", "install_raises", "install_none"}

\* config.install(): the error the call raises ("" for none) and the
\* argument lists the extension's install function was entered with
call_install(modname) ==
    CASE ModuleState(modname) = "install_none" ->
            [exc |-> "TypeError", calls |-> <<>>]
      [] ModuleState(modname) = "install_raises" ->
            [exc |-> "ValueError", calls |-> << <<>> >>]
      [] OTHER -> [exc |-> "", calls |-> << <<>> >>]

\* A faulty variant: calls install() on whatever module was imported.
install_extension_unchecked(configName) ==
    LET modname == configName \o ".fusion"
        raised == import_module(modname)
    IN  IF raised = "ImportError" THEN [exc |-> "", calls |-> <<>>]
        ELSE IF raised # "" THEN [exc |-> raised, calls |-> <<>>]
        ELSE IF hasattr_install(modname) THEN call_install(modname)
        ELSE [exc |-> "AttributeError", calls |-> <<>>]

\* lines 61-67: the error install raises ("" for none) and the argument
\* lists of the calls made to the extension's install(); only ImportError
\* is caught, and the call of install() is not guarded
install_extension(configName) ==
    LET modname == configName \o ".fusion"
        raised == import_module(modname)
    IN  IF raised = "ImportError" THEN [exc |-> "", calls |-> <<>>]
        ELSE IF raised # "" THEN [exc |-> raised, calls |-> <<>>]
        ELSE IF hasattr_install(modname) THEN call_install(modname)
        ELSE [exc |-> "", calls |-> <<>>]

MaxRecords == 2
MaxHandlers == 3

\* install(config): the host is registered and the handler set up before
\* the extension is tried, so they stay when the extension makes it raise
Install(configName) ==
    /\ registeredHosts' = registeredHosts \cup {"fusion"}
    /\ rootHandlers' = addHandler(RemoveAllHandlers(rootHandlers), "CompLogHandler")
    /\ rootLevel' = "DEBUG"
    /\ LET x == install_extension(configName)
       IN  /\ lastInstall' = [config |-> configName, before |-> rootHandlers,
                               calls |-> x.calls]
           /\ ret' = Result("install", 0, x.exc, PyNone)
    /\ UNCHANGED <<console, logged, fusionVars, toolVars, genVars>>

\* another library attaches a handler of its own to the root logger
AddHandler(class) ==
    /\ Len(rootHandlers) < MaxHandlers
    /\ rootHandlers' = addHandler(rootHandlers, class)
    /\ ret' = Result("addHandler", 0, "", PyNone)
    /\ UNCHANGED <<rootLevel, registeredHosts, console, logged, lastInstall,
                   fusionVars, toolVars, genVars>>

\* logging.log(level, message) on the root logger
Log(level) ==
    /\ Len(logged) < MaxRecords
    /\ LET message == "record " \o NatToText(Len(logged) + 1)
           enabled == LevelNo(level) >= LevelNo(rootLevel)
           comp == get_current_comp
           emits == IF enabled THEN CountIn(rootHandlers, "CompLogHandler") ELSE 0
       IN  /\ console' = IF enabled
                         THEN callHandlers(rootHandlers, console, message, comp)
                         ELSE console
           /\ logged' = Append(logged,
                  [entry |-> Format(message),
                   emits |-> emits,
                   comp |-> IF emits > 0 THEN comp ELSE NoComp,
                   installed |-> "fusion" \in registeredHosts])
    /\ ret' = Result("log", 0, "", PyNone)
    /\ UNCHANGED <<rootHandlers, rootLevel, registeredHosts, lastInstall,
                   fusionVars, toolVars, genVars>>

(***************************************************************************)
(* comp_lock_and_undo_chunk, a generator run by contextlib.contextmanager: *)
(* __enter__ runs it to the yield, the body of the with statement follows, *)
(* __exit__ resumes it (throwing the body's error into it, if any), which  *)
(* runs the finally block.  Each host call either succeeds or raises; a    *)
(* call that raises leaves the comp as it was.                             *)
(***************************************************************************)
MaxScopes == 2
Labels == {"Script CMD", "Load"}

Call(name, ok) == [name |-> name, ok |-> ok]

ScopeFrame == UNCHANGED <<fusionVars, toolVars, genVars, logVars>>

\* the with statement is entered: the generator is created and started
ScopeEnter(comp, label) ==
    /\ pc = "idle"
    /\ scopes < MaxScopes
    /\ scopes' = scopes + 1
    /\ pc' = "Lock"
    /\ scopeComp' = comp
    /\ scopeLabel' = label
    /\ calls' = <<>>
    /\ pending' = ""
    /\ ret' = Result("with", comp, "", PyNone)
    /\ UNCHANGED <<lockDepth, undoOpen>>
    /\ ScopeFrame

\* line 137: comp.Lock(); an error sends control to the finally block
ScopeLock(ok) ==
    /\ pc = "Lock"
    /\ calls' = Append(calls, Call("Lock", ok))
    /\ IF ok
       THEN /\ lockDepth' = [lockDepth EXCEPT ![scopeComp] = @ + 1]
            /\ pc' = "StartUndo"
            /\ UNCHANGED pending
       ELSE /\ pending' = "LockError"
            /\ pc' = "Unlock"
            /\ UNCHANGED lockDepth
    /\ UNCHANGED <<scopeComp, scopeLabel, undoOpen, scopes, ret>>
    /\ ScopeFrame

\* line 138: comp.StartUndo(undo_queue_name)
ScopeStartUndo(ok) ==
    /\ pc = "StartUndo"
    /\ calls' = Append(calls, Call("StartUndo", ok))
    /\ IF ok
       THEN /\ undoOpen' = [undoOpen EXCEPT ![scopeComp] = Append(@, scopeLabel)]
            /\ pc' = "body"
            /\ UNCHANGED pending
       ELSE /\ pending' = "StartUndoError"
            /\ pc' = "Unlock"
            /\ UNCHANGED undoOpen
    /\ UNCHANGED <<scopeComp, scopeLabel, lockDepth, scopes, ret>>
    /\ ScopeFrame

\* line 139: the yield; the body of the with statement runs and either
\* completes or raises, and __exit__ resumes the generator
ScopeBody(raises) ==
    /\ pc = "body"
    /\ calls' = Append(calls, Call("body", ~raises))
    /\ pending' = IF raises THEN "BodyError" ELSE ""
    /\ pc' = "Unlock"
    /\ UNCHANGED <<scopeComp, scopeLabel, lockDepth, undoOpen, scopes, ret>>
    /\ ScopeFrame

\* line 141: comp.Unlock(), first statement of the finally block; if it
\* raises, its error leaves the generator and line 142 is not reached
ScopeUnlock(ok) ==
    /\ pc = "Unlock"
    /\ calls' = Append(calls, Call("Unlock", ok))
    /\ IF ok
       THEN /\ lockDepth' = [lockDepth EXCEPT ![scopeComp] = IF @ > 0 THEN @ - 1 ELSE 0]
            /\ pc' = "EndUndo"
            /\ UNCHANGED <<pending, ret>>
       ELSE /\ pending' = "UnlockError"
            /\ pc' = "idle"
            /\ ret' = Result("with", scopeComp, "UnlockError", PyNone)
            /\ UNCHANGED lockDepth
    /\ UNCHANGED <<scopeComp, scopeLabel, undoOpen, scopes>>
    /\ ScopeFrame

\* line 142: comp.EndUndo(); then the pending error, if any, goes on to the
\* caller of the with statement
ScopeEndUndo(ok) ==
    /\ pc = "EndUndo"
    /\ calls' = Append(calls, Call("EndUndo", ok))
    /\ pc' = "idle"
    /\ IF ok
       THEN /\ undoOpen' = [undoOpen EXCEPT ![scopeComp] =
                              IF @ = <<>> THEN <<>> ELSE SubSeq(@, 1, Len(@) - 1)]
            /\ ret' = Result("with", scopeComp, pending, PyNone)
            /\ UNCHANGED pending
       ELSE /\ pending' = "EndUndoError"
            /\ ret' = Result("with", scopeComp, "EndUndoError", PyNone)
            /\ UNCHANGED undoOpen
    /\ UNCHANGED <<scopeComp, scopeLabel, lockDepth, scopes>>
    /\ ScopeFrame

(***************************************************************************)
(* The specifications.  Spec is the whole module; the three parts of the   *)
(* module share no state but the current comp, and each is checked under   *)
(* a specification of its own.                                             *)
(***************************************************************************)
LsCalls ==
    {Args(PyStr("chair_01"), PyStr("charA"), ContextOf(PyStr("60f")), PyStr("ModelLoader"))}

NextImprint ==
    \/ \E kind \in ToolKinds : AddTool(1, kind) /\ UNCHANGED <<logVars, scopeVars>>
    \/ \E t \in Tools, a \in ImprintCalls :
          Imprint(t, a.name, a.namespace, a.context, a.loader)
            /\ UNCHANGED <<logVars, scopeVars>>
    \/ \E t \in Tools : Parse(t) /\ UNCHANGED <<logVars, scopeVars>>

SpecImprint == Init /\ [][NextImprint]_vars

NextLs ==
    \/ \E c \in Comps, kind \in ToolKinds :
          AddTool(c, kind) /\ UNCHANGED <<logVars, scopeVars>>
    \/ \E c \in Comps, t \in Tools :
          DeleteTool(c, t) /\ UNCHANGED <<logVars, scopeVars>>
    \/ \E c \in Comps \cup {NoComp} :
          SetCurrentComp(TRUE, c) /\ UNCHANGED <<logVars, scopeVars>>
    \/ \E t \in Tools, a \in LsCalls :
          Imprint(t, a.name, a.namespace, a.context, a.loader)
            /\ UNCHANGED <<logVars, scopeVars>>
    \/ LsCall /\ UNCHANGED <<logVars, scopeVars>>
    \/ GenNext /\ UNCHANGED <<logVars, scopeVars>>
    \/ GenDrop /\ UNCHANGED <<logVars, scopeVars>>

SpecLs == Init /\ [][NextLs]_vars

NextInstall ==
    \/ \E config \in Configs : Install(config) /\ UNCHANGED scopeVars
    \/ \E class \in HandlerClasses : AddHandler(class) /\ UNCHANGED scopeVars

SpecInstall == Init /\ [][NextInstall]_vars

NextLog ==
    \/ \E config \in {"mindbender"} : Install(config) /\ UNCHANGED scopeVars
    \/ \E level \in LevelNames : Log(level) /\ UNCHANGED scopeVars
    \/ \E present \in BOOLEAN, c \in Comps \cup {NoComp} :
          SetCurrentComp(present, c) /\ UNCHANGED <<logVars, scopeVars>>

SpecLog == Init /\ [][NextLog]_vars

NextScope ==
    \/ \E c \in Comps, label \in Labels : ScopeEnter(c, label)
    \/ \E ok \in BOOLEAN : ScopeLock(ok)
    \/ \E ok \in BOOLEAN : ScopeStartUndo(ok)
    \/ \E raises \in BOOLEAN : ScopeBody(raises)
    \/ \E ok \in BOOLEAN : ScopeUnlock(ok)
    \/ \E ok \in BOOLEAN : ScopeEndUndo(ok)

SpecScope == Init /\ [][NextScope]_vars

Next == NextImprint \/ NextLs \/ NextInstall \/ NextLog \/ NextScope

Spec == Init /\ [][Next]_vars

(***************************************************************************)
(* Properties of the container protocol.                                   *)
(***************************************************************************)
CreatedTools == {t \in Tools : toolID[t] # ""}

\* C1: after one or more successful imprint_container calls on a tool,
\* parse_container returns name, namespace, loader and representation equal
\* to the stringified arguments of the most recent call, and schema and id
\* equal to the two constants.
C1_RoundTrip ==
    \A t \in CreatedTools :
        lastImprint[t].done =>
            LET c == parse_container(t)
            IN  /\ c["schema"] = PyStr("avalon-core:container-2.0")
                /\ c["id"] = PyStr("pyblish.avalon.container")
                /\ c["name"] = PyStr(str(lastImprint[t].name))
                /\ c["namespace"] = PyStr(str(lastImprint[t].namespace))
                /\ c["loader"] = PyStr(str(lastImprint[t].loader))
                /\ c["representation"] = PyStr(str(lastImprint[t].id))

\* a tool imprinted twice, last with a number for a name and no loader, has
\* just been parsed
C1_Witness ==
    /\ ret.op = "parse_container"
    /\ lastImprint[ret.tool].replaced
    /\ lastImprint[ret.tool].name = PyInt(7)
    /\ lastImprint[ret.tool].loader = PyNone
    /\ ret.val["name"] = PyStr("7")
    /\ ret.val["loader"] = PyStr("None")

\* C3: parse_container on a tool that was never imprinted returns a record
\* with exactly the six fields, objectName and _tool as keys, the six fields
\* None, objectName the tool's name and _tool the tool; the call does not
\* raise.
C3_NeverImprinted ==
    /\ \A t \in CreatedTools :
        ~lastImprint[t].done =>
            LET c == parse_container(t)
            IN  /\ DOMAIN c = {"schema", "id", "name", "namespace", "loader",
                               "representation", "objectName", "_tool"}
                /\ \A k \in {"schema", "id", "name", "namespace", "loader",
                             "representation"} : c[k] = PyNone
                /\ c["objectName"] = PyStr(ToolName(t))
                /\ c["_tool"] = PyTool(t)
    /\ ret.op = "parse_container" =>
        /\ ret.exc = ""
        /\ ret.val = parse_container(ret.tool)

\* a never-imprinted tool has just been parsed, after an imprint on it failed
C3_Witness ==
    /\ ret.op = "parse_container"
    /\ ~lastImprint[ret.tool].done
    /\ ret.val["schema"] = PyNone
    /\ ret.val["objectName"] = PyStr("Loader1")

AnyImprintFails ==
    \E t \in Tools, a \in ImprintCalls :
        /\ Imprint(t, a.name, a.namespace, a.context, a.loader)
        /\ ret'.exc # ""

\* C10: an imprint_container call that fails (its context lacks
\* representation._id) leaves the metadata of every tool as it was, so
\* parse_container returns what it returned before the call.
C10_FailedImprintWritesNothing ==
    [][AnyImprintFails =>
          /\ toolData' = toolData
          /\ \A t \in CreatedTools : parse_container(t)' = parse_container(t)]_vars

\* an imprint has just failed with KeyError on a tool that carries the
\* values of an earlier, successful imprint
C10_Witness ==
    /\ ret.op = "imprint_container"
    /\ ret.exc = "KeyError"
    /\ lastImprint[ret.tool].done
    /\ parse_container(ret.tool)["name"] = PyStr("chair_01")

(***************************************************************************)
(* Properties of ls.                                                       *)
(***************************************************************************)
ContainersOf(list) == [i \in 1 .. Len(list) |-> parse_container(list[i])]
YieldedTools == [i \in 1 .. Len(yielded) |-> yielded[i]["_tool"].n]

\* sub is seq with some of its elements left out
RECURSIVE IsSubSeq(_, _)
IsSubSeq(sub, seq) ==
    IF sub = <<>> THEN TRUE
    ELSE IF seq = <<>> THEN FALSE
    ELSE IF Head(sub) = Head(seq) THEN IsSubSeq(Tail(sub), Tail(seq))
    ELSE IsSubSeq(sub, Tail(seq))

\* C7: consuming ls() to its end over a comp that does not change yields, in
\* tool-list order, the parse_container of every tool of the current comp
\* whose ID is "Loader", imprinted or not, each once, and nothing for the
\* other tools.
C7_LsYieldsLoaders ==
    (gen.state = "exhausted" /\ changes = 0) =>
        /\ get_current_comp # NoComp
        /\ yielded = ContainersOf(LoaderTools(compTools[get_current_comp]))

\* ls() was consumed to its end over an unchanged comp of two tools, a
\* Loader never imprinted and a tool of another kind, and yielded the Loader
C7_Witness ==
    /\ gen.state = "exhausted"
    /\ changes = 0
    /\ Len(compTools[get_current_comp]) = 2
    /\ Len(yielded) = 1
    /\ yielded[1]["schema"] = PyNone
    /\ yielded[1]["objectName"] = PyStr("Loader1")

\* C8 as stated: when nothing changes after the first element was asked
\* for, the tools enumerated are the Loaders of the tool list the current
\* comp had when ls() was called.
C8_SnapshotAtCall ==
    (gen.state = "exhausted" /\ ~changedLate) => YieldedTools = atCall

\* C8 as amended: the tool list is read when the first element is asked
\* for.  The tools enumerated are Loaders of that list, in its order; they
\* are all its Loaders when the generator is exhausted and none of them
\* was deleted meanwhile; once the generator has ended, advancing it
\* again raises StopIteration and yields nothing.
C8_SnapshotAtFirstNext ==
    /\ [](gen.state \in {"suspended", "exhausted", "failed"} =>
            /\ IsSubSeq(YieldedTools, atStart)
            /\ (gen.state = "exhausted" /\ \A i \in 1 .. Len(atStart) : atStart[i] \notin deleted)
                  => YieldedTools = atStart)
    /\ [][(gen.state \in {"exhausted", "failed"} /\ GenNext) =>
            /\ ret'.exc = "StopIteration"
            /\ yielded' = yielded
            /\ gen' = gen]_vars

\* ls() was consumed to its end; the comp changed between the call and the
\* first element but not after, and the tools yielded are those of the later
\* list
C8_Witness ==
    /\ gen.state = "exhausted"
    /\ changes > 0
    /\ ~changedLate
    /\ atCall # atStart
    /\ YieldedTools = atStart
    /\ Len(yielded) > 0
    /\ ret.op = "next"
    /\ ret.exc = "StopIteration"

(***************************************************************************)
(* Properties of install and of the log handler.                           *)
(***************************************************************************)
\* C4 as stated: install never raises because of the extension; for a
\* config without the submodule it returns with the host registered and the
\* handler installed and calls no entry point; the entry point is called,
\* once and without arguments, exactly when the submodule was imported and
\* has an install attribute.
C4_NeverFails ==
    ret.op = "install" =>
        LET modname == lastInstall.config \o ".fusion"
        IN  /\ ret.exc = ""
            /\ ModuleState(modname) = "absent" =>
                    /\ "fusion" \in registeredHosts
                    /\ CountIn(rootHandlers, "CompLogHandler") = 1
                    /\ lastInstall.calls = <<>>
            /\ lastInstall.calls \in {<<>>, << <<>> >>}
            /\ lastInstall.calls = << <<>> >>
                 <=> (import_module(modname) = "" /\ hasattr_install(modname))

\* C4 as amended: install does not raise when importing the submodule raises
\* ImportError (no such submodule, or an import failing inside it): it
\* returns having called no entry point.  The entry point is called, once
\* and without arguments, exactly when the import succeeded and the module
\* has a callable install.  Any other error of the import, a
\* non-callable install and an error raised by install() leave install as
\* that error.  In every case the host is registered and the one
\* CompLogHandler installed.
C4_ExtensionOptional ==
    ret.op = "install" =>
        LET state == ModuleState(lastInstall.config \o ".fusion")
        IN  /\ "fusion" \in registeredHosts
            /\ CountIn(rootHandlers, "CompLogHandler") = 1
            /\ state \in {"absent", "import_error"} =>
                    ret.exc = "" /\ lastInstall.calls = <<>>
            /\ state = "no_install" => ret.exc = "" /\ lastInstall.calls = <<>>
            /\ state = "has_install" =>
                    ret.exc = "" /\ lastInstall.calls = << <<>> >>
            /\ state = "import_raises" =>
                    ret.exc = "RuntimeError" /\ lastInstall.calls = <<>>
            /\ state = "install_none" =>
                    ret.exc = "TypeError" /\ lastInstall.calls = <<>>
            /\ state = "install_raises" =>
                    ret.exc = "ValueError" /\ lastInstall.calls = << <<>> >>

\* install has returned for a config that has no fusion submodule, having
\* replaced the handler of an earlier install
C4_Witness ==
    /\ ret.op = "install"
    /\ ret.exc = ""
    /\ lastInstall.config = "mindbender"
    /\ lastInstall.calls = <<>>
    /\ "fusion" \in registeredHosts
    /\ rootHandlers = <<"CompLogHandler">>
    /\ lastInstall.before = <<"CompLogHandler">>

PrintedIn(comp, entry) == CountIn(console[comp], entry)

\* C5: a record that reaches the handler after install is printed once, to
\* the console of the comp that was current when it was emitted, and to no
\* other; with no current comp at that moment it is printed nowhere, neither
\* then nor later.
C5_EmitOrDrop ==
    \A i \in 1 .. Len(logged) :
        LET r == logged[i]
        IN  (r.installed /\ r.emits > 0) =>
                /\ r.emits = 1
                /\ \A c \in Comps :
                     PrintedIn(c, r.entry) = IF c = r.comp THEN 1 ELSE 0

\* a record was emitted with no comp to print to and stayed unprinted while
\* a later record, emitted with a current comp, was printed
C5_Witness ==
    /\ Len(logged) = 2
    /\ logged[1].installed /\ logged[1].emits = 1 /\ logged[1].comp = NoComp
    /\ logged[2].installed /\ logged[2].emits = 1 /\ logged[2].comp = 1
    /\ console[1] = <<"record 2\n">>

\* C6: when install returns, whatever handlers the root logger had, it has
\* exactly one handler, a CompLogHandler, and its level is DEBUG.
C6_SingleHandler ==
    ret.op = "install" =>
        /\ rootHandlers = <<"CompLogHandler">>
        /\ rootLevel = "DEBUG"

\* install has just returned for the second time at least, having found the
\* handler of an earlier install and a handler of another library
C6_Witness ==
    /\ ret.op = "install"
    /\ Len(lastInstall.before) = 2
    /\ CountIn(lastInstall.before, "CompLogHandler") = 1
    /\ rootHandlers = <<"CompLogHandler">>

(***************************************************************************)
(* Properties of comp_lock_and_undo_chunk.                                 *)
(***************************************************************************)
CallsOf(name) == Cardinality({i \in 1 .. Len(calls) : calls[i].name = name})
Succeeded(name) ==
    Cardinality({i \in 1 .. Len(calls) : calls[i].name = name /\ calls[i].ok})
BodyEntered == CallsOf("body") > 0
BodyRaised == \E i \in 1 .. Len(calls) : calls[i].name = "body" /\ ~calls[i].ok
Returned == pc = "idle" /\ scopes > 0

\* C2: once the body was entered, when control is back with the caller both
\* Unlock and EndUndo were called exactly once, the comp is unlocked and has
\* no open undo chunk, and an error of the body is the error the caller gets.
C2_ReleasedOnEveryExit ==
    (Returned /\ BodyEntered) =>
        /\ CallsOf("Unlock") = 1
        /\ CallsOf("EndUndo") = 1
        /\ lockDepth[scopeComp] = 0
        /\ undoOpen[scopeComp] = <<>>
        /\ BodyRaised => ret.exc = "BodyError"

\* C9: at every point Unlock was called no more often than Lock succeeded
\* and EndUndo no more often than StartUndo succeeded, and the body runs only
\* after Lock and StartUndo both succeeded.
C9_SymmetricRelease ==
    /\ CallsOf("Unlock") <= Succeeded("Lock")
    /\ CallsOf("EndUndo") <= Succeeded("StartUndo")
    /\ BodyEntered => (Succeeded("Lock") = 1 /\ Succeeded("StartUndo") = 1)

====
